---- MODULE Spec2Model ----
(***************************************************************************)
(* A model of the rt1_pytorch training driver (train.py), the multi-source *)
(* dataset (data/multiple_dataset.py) and the step mappers                 *)
(* (data/step_map_fn.py).                                                  *)
(*                                                                         *)
(* Spec          the training runs: Trainer.train on every process of a    *)
(*               job, followed by externally triggered restarts.           *)
(* SpecDataset   CombinedDataset: construction and item requests.          *)
(* SpecStepMap   the four step mappers applied to native steps.            *)
(* SpecRetrieve  Trainer.retrieve_single_timestep on small tensors.        *)
(***************************************************************************)
EXTENDS Integers, Sequences, FiniteSets, TLC

\* ------------------------------------------------------------------ bounds
MaxEpochs == 2
MaxValInterval == 2
MaxProcs == 2
MaxStream == 1
MaxRuns == 2
MaxSteps == 2

\* ------------------------------------------------------- program constants
\* CombinedDataset.__len__ returns int(1e8).
DatasetLen == 100000000

\* The rank util.misc elects as the main process.
MainRank == 0

VARIABLES
    \* ---- Trainer.train (one job = world_size processes)
    args,          \* the run configuration (self.args)
    stream_len,    \* number of items the merged tf stream holds
    run,           \* index of the current job (a restart begins a new one)
    files,         \* checkpoint files on disk, over all runs
    scalars,       \* scalar entries of the current run's tensorboard directory
    pc,            \* per process: position in Trainer.train
    e,             \* per process: loop variable e
    yielded,       \* per process: batches the DataLoader yielded this epoch
    combined_dataset_it, \* per process: items drawn from the merged stream
    train_step,    \* per process: self.train_step
    network,       \* per process: the epoch index of every update applied
    optimizer,     \* per process: [step, lr]
    scheduler,     \* per process: [last_epoch]
    checkpoint,    \* per process: the local variable checkpoint
    coll,          \* per process: number of collectives entered
    trace,         \* per process: the epochs entered and checkpoints built, in order
    loaded,        \* per process: the bundle load_state_dict was given
    stop_iteration,\* per process: a batch request raised StopIteration
    \* ---- CombinedDataset
    ds,
    \* ---- step mappers
    sm,
    \* ---- retrieve_single_timestep
    rt,
    \* ---- Trainer.__init__ on every process of a job
    ctor

trainVars == <<args, stream_len, run, files, scalars, pc, e, yielded,
               combined_dataset_it, train_step, network, optimizer, scheduler,
               checkpoint, coll, trace, loaded, stop_iteration>>
vars == <<trainVars, ds, sm, rt, ctor>>

Procs == 0 .. (args.world_size - 1)

NoCheckpoint == [none |-> TRUE]

\* ------------------------------------------------------------- util.misc
IsMainProcess(p) == p = MainRank

\* utils.save_on_master(checkpoint, filename): torch.save on the main
\* process only; an existing file of that name is replaced.
SaveOnMaster(p, bundle, filename, fs) ==
    IF IsMainProcess(p)
    THEN {f \in fs : f.path # filename}
         \cup {[path |-> filename, bundle |-> bundle, writer |-> p]}
    ELSE fs

\* ------------------------------------------------------------ torch pieces
\* len(train_dataloader): drop_last batches over the sampler's indices.
\* DistributedSampler hands each rank ceil(len / world_size) indices.
LoaderLen(a) ==
    IF a.distributed
    THEN ((DatasetLen + a.world_size - 1) \div a.world_size) \div a.batch_size
    ELSE DatasetLen \div a.batch_size

\* AdamW(...), CosineAnnealingWarmRestarts(...): the scheduler's constructor
\* takes its initial step, which leaves last_epoch = 0 and sets the lr.
FreshOptimizer == [step |-> 0, lr |-> 0]
FreshScheduler == [last_epoch |-> 0]

\* scheduler.step(): advance the schedule and set the optimizer's lr to the
\* schedule's value at the new position (the lr is kept as that position).
SchedulerSteppedBug(s) == [last_epoch |-> s.last_epoch + 2]
SchedulerStepped(s) == [last_epoch |-> s.last_epoch + 1]
LrSetBy(o, s) == [o EXCEPT !.lr = s.last_epoch]

\* a collective (barrier, gradient all-reduce) releases a process once every
\* process of the job has entered it.
Released(p) == \A q \in Procs : coll[q] >= coll[p]

\* --------------------------------------------------------- Trainer.train
\* train.py:164
EpochStartBug(ck) == IF args.resume THEN ck.epoch + 1 ELSE 0
EpochStart(ck) == IF args.resume THEN ck.epoch ELSE 0

\* train.py:165, range(epoch_start, epochs)
InRangeBug(ep, n) == ep <= n
InRange(ep, n) == ep < n

\* train.py:236
ShouldCheckpointBug(ep, vi) == ep % vi = 0
ShouldCheckpoint(ep, vi) == (ep + 1) % vi = 0

\* train.py:237-239, os.path.join(checkpoint_dir, str(e) + "-checkpoint.pth");
\* the checkpoint directory is named after the run.
CheckpointFilename(r, ep) == <<r, ep, "-checkpoint.pth">>

\* train.py:240-247
BuildCheckpointBug(p, ep) ==
    [model_state_dict |-> network[p],
     optimizer_state_dict |-> optimizer[p],
     scheduler_state_dict |-> scheduler[p],
     epoch |-> ep + 1]
BuildCheckpoint(p, ep) ==
    [model_state_dict |-> network[p],
     optimizer_state_dict |-> optimizer[p],
     scheduler_state_dict |-> scheduler[p],
     epoch |-> ep]

\* train.py:197-218: the three scalars of one training step.
StepScalars(p, step, ep, lr) ==
    {[tag |-> "loss_ce", global_step |-> step, scalar_value |-> step, writer |-> p],
     [tag |-> "epoch", global_step |-> step, scalar_value |-> ep, writer |-> p],
     [tag |-> "lr", global_step |-> step, scalar_value |-> lr, writer |-> p]}
AddScalarsBug(p, step, ep, lr, sc) == sc \cup StepScalars(p, step, ep, lr)
AddScalars(p, step, ep, lr, sc) ==
    IF IsMainProcess(p) THEN sc \cup StepScalars(p, step, ep, lr) ELSE sc

\* train.py:249: the two barriers follow the checkpoint in distributed mode.
BarrierAfterCheckpointBug(a) == FALSE
BarrierAfterCheckpoint(a) == a.distributed

\* train.py:149-152 / 159-162: the three load_state_dict calls.
LoadStateDictsBug(ck) ==
    [network |-> ck.model_state_dict,
     optimizer |-> FreshOptimizer,
     scheduler |-> ck.scheduler_state_dict]
LoadStateDicts(ck) ==
    [network |-> ck.model_state_dict,
     optimizer |-> ck.optimizer_state_dict,
     scheduler |-> ck.scheduler_state_dict]

\* train.py:124-164: build the network, load the checkpoint when resuming,
\* create optimizer and scheduler, pick the first epoch. torch.load raises
\* when the file is missing.
Setup(p) ==
    /\ pc[p] = "init"
    /\ IF args.resume
       THEN LET found == {f \in files : f.path = args.resume_from_checkpoint} IN
            IF found = {}
            THEN /\ pc' = [pc EXCEPT ![p] = "aborted"]
                 /\ UNCHANGED <<checkpoint, network, optimizer, scheduler, e, loaded>>
            ELSE LET ck == (CHOOSE f \in found : TRUE).bundle
                     st == LoadStateDicts(ck) IN
                 /\ checkpoint' = [checkpoint EXCEPT ![p] = ck]
                 /\ loaded' = [loaded EXCEPT ![p] = ck]
                 /\ network' = [network EXCEPT ![p] = st.network]
                 /\ optimizer' = [optimizer EXCEPT ![p] = st.optimizer]
                 /\ scheduler' = [scheduler EXCEPT ![p] = st.scheduler]
                 /\ e' = [e EXCEPT ![p] = EpochStart(ck)]
                 /\ pc' = [pc EXCEPT ![p] = "epoch"]
       ELSE /\ network' = [network EXCEPT ![p] = <<>>]
            /\ optimizer' = [optimizer EXCEPT ![p] = FreshOptimizer]
            /\ scheduler' = [scheduler EXCEPT ![p] = FreshScheduler]
            /\ e' = [e EXCEPT ![p] = EpochStart(checkpoint[p])]
            /\ pc' = [pc EXCEPT ![p] = "epoch"]
            /\ UNCHANGED <<checkpoint, loaded>>
    /\ UNCHANGED <<args, stream_len, run, files, scalars, yielded,
                   combined_dataset_it, train_step, coll, trace,
                   stop_iteration>>

\* train.py:165-171: the head of the epoch loop; entering an epoch creates a
\* new iterator over the DataLoader.
EpochHead(p) ==
    /\ pc[p] = "epoch"
    /\ IF InRange(e[p], args.epochs)
       THEN /\ pc' = [pc EXCEPT ![p] = "loop"]
            /\ yielded' = [yielded EXCEPT ![p] = 0]
            /\ trace' = [trace EXCEPT ![p] = Append(@, [op |-> "train", epoch |-> e[p]])]
       ELSE /\ pc' = [pc EXCEPT ![p] = "done"]
            /\ UNCHANGED <<yielded, trace>>
    /\ UNCHANGED <<args, stream_len, run, files, scalars, e,
                   combined_dataset_it, train_step, network, optimizer,
                   scheduler, checkpoint, coll, loaded, stop_iteration>>

\* train.py:171-191 with multiple_dataset.py:32-33: one batch request and the
\* forward pass on it. The loader ends the loop after LoaderLen batches. A
\* batch takes batch_size items from the merged stream; when the stream runs
\* out, next() raises StopIteration inside __getitem__, which the for
\* statement over the loader takes as the end of the iteration. In
\* distributed mode the backward pass that follows is a collective.
Fetch(p) ==
    /\ pc[p] = "loop"
    /\ IF yielded[p] >= LoaderLen(args)
       THEN /\ pc' = [pc EXCEPT ![p] = "after_loop"]
            /\ UNCHANGED <<yielded, combined_dataset_it, coll, stop_iteration>>
       ELSE IF stream_len - combined_dataset_it[p] >= args.batch_size
       THEN /\ combined_dataset_it' =
                   [combined_dataset_it EXCEPT ![p] = @ + args.batch_size]
            /\ yielded' = [yielded EXCEPT ![p] = @ + 1]
            /\ coll' = [coll EXCEPT ![p] = IF args.distributed THEN @ + 1 ELSE @]
            /\ pc' = [pc EXCEPT ![p] = "backward"]
            /\ UNCHANGED stop_iteration
       ELSE /\ combined_dataset_it' = [combined_dataset_it EXCEPT ![p] = stream_len]
            /\ stop_iteration' = [stop_iteration EXCEPT ![p] = TRUE]
            /\ pc' = [pc EXCEPT ![p] = "after_loop"]
            /\ UNCHANGED <<yielded, coll>>
    /\ UNCHANGED <<args, stream_len, run, files, scalars, e, train_step,
                   network, optimizer, scheduler, checkpoint, trace, loaded>>

\* train.py:193-219: backward (the gradient all-reduce in distributed mode),
\* optimizer.step(), the main process's scalars, the step counter.
TrainStep(p) ==
    /\ pc[p] = "backward"
    /\ args.distributed => Released(p)
    /\ network' = [network EXCEPT ![p] = Append(@, e[p])]
    /\ optimizer' = [optimizer EXCEPT ![p].step = @ + 1]
    /\ scalars' = AddScalars(p, train_step[p], e[p], optimizer[p].lr, scalars)
    /\ train_step' = [train_step EXCEPT ![p] = @ + 1]
    /\ pc' = [pc EXCEPT ![p] = "loop"]
    /\ UNCHANGED <<args, stream_len, run, files, e, yielded,
                   combined_dataset_it, scheduler, checkpoint, coll, trace,
                   loaded, stop_iteration>>

\* train.py:171-194: an exception other than StopIteration in a batch request
\* or in the training step is not caught: the process leaves train().
Fail(p) ==
    /\ pc[p] \in {"loop", "backward"}
    /\ pc[p] = "loop" => yielded[p] < LoaderLen(args)
    /\ pc' = [pc EXCEPT ![p] = "aborted"]
    /\ UNCHANGED <<args, stream_len, run, files, scalars, e, yielded,
                   combined_dataset_it, train_step, network, optimizer,
                   scheduler, checkpoint, coll, trace, loaded, stop_iteration>>

\* train.py:236-254: the checkpoint of an epoch and, in distributed mode, the
\* entry into the first barrier.
Checkpoint(p) ==
    /\ pc[p] = "after_loop"
    /\ IF ShouldCheckpoint(e[p], args.val_interval)
       THEN LET ck == BuildCheckpoint(p, e[p]) IN
            /\ checkpoint' = [checkpoint EXCEPT ![p] = ck]
            /\ files' = SaveOnMaster(p, ck, CheckpointFilename(run, e[p]), files)
            /\ trace' = [trace EXCEPT ![p] = Append(@, [op |-> "checkpoint", epoch |-> e[p]])]
            /\ IF BarrierAfterCheckpoint(args)
               THEN /\ coll' = [coll EXCEPT ![p] = @ + 1]
                    /\ pc' = [pc EXCEPT ![p] = "barrier1"]
               ELSE /\ pc' = [pc EXCEPT ![p] = "sched"]
                    /\ UNCHANGED coll
       ELSE /\ pc' = [pc EXCEPT ![p] = "sched"]
            /\ UNCHANGED <<checkpoint, files, coll, trace>>
    /\ UNCHANGED <<args, stream_len, run, scalars, e, yielded,
                   combined_dataset_it, train_step, network, optimizer,
                   scheduler, loaded, stop_iteration>>

\* train.py:254-264: leave the first barrier, enter the second.
Barrier1(p) ==
    /\ pc[p] = "barrier1"
    /\ Released(p)
    /\ coll' = [coll EXCEPT ![p] = @ + 1]
    /\ pc' = [pc EXCEPT ![p] = "barrier2"]
    /\ UNCHANGED <<args, stream_len, run, files, scalars, e, yielded,
                   combined_dataset_it, train_step, network, optimizer,
                   scheduler, checkpoint, trace, loaded, stop_iteration>>

\* train.py:264: leave the second barrier.
Barrier2(p) ==
    /\ pc[p] = "barrier2"
    /\ Released(p)
    /\ pc' = [pc EXCEPT ![p] = "sched"]
    /\ UNCHANGED <<args, stream_len, run, files, scalars, e, yielded,
                   combined_dataset_it, train_step, network, optimizer,
                   scheduler, checkpoint, coll, trace, loaded, stop_iteration>>

\* train.py:271 and the next value of range(): scheduler.step().
SchedulerStep(p) ==
    /\ pc[p] = "sched"
    /\ LET s == SchedulerStepped(scheduler[p]) IN
       /\ scheduler' = [scheduler EXCEPT ![p] = s]
       /\ optimizer' = [optimizer EXCEPT ![p] = LrSetBy(@, s)]
    /\ e' = [e EXCEPT ![p] = @ + 1]
    /\ pc' = [pc EXCEPT ![p] = "epoch"]
    /\ UNCHANGED <<args, stream_len, run, files, scalars, yielded,
                   combined_dataset_it, train_step, network, checkpoint, coll,
                   trace, loaded, stop_iteration>>

\* ------------------------------------------------------------ configurations
BatchSizes == {1, DatasetLen \div 2, DatasetLen}
StreamSizes == (0 .. MaxStream) \cup {MaxEpochs * DatasetLen}

Min(a, b) == IF a < b THEN a ELSE b

\* the most training steps one process takes in a run
StepsOfRun(a, n) == Min(n \div a.batch_size, MaxEpochs * LoaderLen(a))

\* crash-and-restart from a checkpoint, triggered from outside: once the job
\* is over (every process returned, or one died), a new job is started that
\* resumes from one of the checkpoint files on disk, with the epoch count of
\* its configuration. Trainer.__init__ creates a new CombinedDataset (a fresh
\* iterator), a new run directory and a new SummaryWriter.
JobOver ==
    \/ \A p \in Procs : pc[p] = "done"
    \/ \E p \in Procs : pc[p] = "aborted"

Restart ==
    /\ run < MaxRuns
    /\ JobOver
    /\ \E f \in files, n \in 0 .. MaxEpochs :
          args' = [args EXCEPT !.resume = TRUE,
                               !.resume_from_checkpoint = f.path,
                               !.epochs = n]
    /\ run' = run + 1
    /\ scalars' = {}
    /\ pc' = [p \in Procs |-> "init"]
    /\ e' = [p \in Procs |-> 0]
    /\ yielded' = [p \in Procs |-> 0]
    /\ combined_dataset_it' = [p \in Procs |-> 0]
    /\ train_step' = [p \in Procs |-> 0]
    /\ network' = [p \in Procs |-> <<>>]
    /\ optimizer' = [p \in Procs |-> FreshOptimizer]
    /\ scheduler' = [p \in Procs |-> FreshScheduler]
    /\ checkpoint' = [p \in Procs |-> NoCheckpoint]
    /\ coll' = [p \in Procs |-> 0]
    /\ trace' = [p \in Procs |-> <<>>]
    /\ loaded' = [p \in Procs |-> NoCheckpoint]
    /\ stop_iteration' = [p \in Procs |-> FALSE]
    /\ UNCHANGED <<stream_len, files>>

\* ======================================================== CombinedDataset
\* builder_dir_list / dataset_name_list hold two sources.
NumSources == 2

\* bounds of the dataset model
NumSpecKinds == 2
MaxItems == 3

SourceIds == 1 .. NumSources
SpecKinds == 1 .. NumSpecKinds
NoIterator == [none |-> TRUE]
NoExample == [none |-> TRUE]

\* the sequences over S of length 0 .. n
SeqsUpTo(S, n) == UNION {[1 .. k -> S] : k \in 0 .. n}

\* multiple_dataset.py:21-23: every source's expected_tensor_spec equals the
\* first one's.
SpecsAgreeBug(specs) == \A i \in DOMAIN specs : specs[i] = specs[i]
SpecsAgree(specs) == \A i \in DOMAIN specs : specs[i] = specs[1]

\* multiple_dataset.py:14-27, CombinedDataset.__init__: build the sources,
\* assert the specs agree, then merge and create the one iterator. A failed
\* assertion leaves the object without iterator.
Construct ==
    /\ ds.pc = "new"
    /\ IF SpecsAgree(ds.specs)
       THEN ds' = [ds EXCEPT !.pc = "built", !.it = [pos |-> 0]]
       ELSE ds' = [ds EXCEPT !.pc = "failed"]
    /\ UNCHANGED <<trainVars, sm, rt, ctor>>

\* data_loader.tf_to_torch on every leaf of an example
TfToTorch(item) == [item EXCEPT !.framework = "torch"]

\* the example the merged stream holds at position n (1-based)
StreamItem(n) ==
    [source |-> ds.stream[n], spec |-> ds.specs[ds.stream[n]],
     position |-> n, framework |-> "tf"]

\* multiple_dataset.py:32-41, CombinedDataset.__getitem__(idx): next() on the
\* iterator made at construction, whatever idx is; StopIteration when the
\* stream is used up.
GetItemBug(idx) ==
    /\ ds.it # NoIterator
    /\ IF idx < Len(ds.stream)
       THEN ds' = [ds EXCEPT !.it = [pos |-> idx + 1],
                             !.example = TfToTorch(StreamItem(idx + 1)),
                             !.drawn = @ + 1,
                             !.last_idx = idx]
       ELSE ds' = [ds EXCEPT !.raised = TRUE, !.last_idx = idx]
    /\ UNCHANGED <<trainVars, sm, rt, ctor>>
GetItem(idx) ==
    /\ ds.it # NoIterator
    /\ IF ds.it.pos < Len(ds.stream)
       THEN ds' = [ds EXCEPT !.it = [pos |-> @.pos + 1],
                             !.example = TfToTorch(StreamItem(ds.it.pos + 1)),
                             !.drawn = @ + 1,
                             !.last_idx = idx]
       ELSE ds' = [ds EXCEPT !.raised = TRUE, !.last_idx = idx]
    /\ UNCHANGED <<trainVars, sm, rt, ctor>>

\* multiple_dataset.py:29-30, CombinedDataset.__len__: int(1e8), whatever
\* the state of the object.
CombinedDatasetLenBug(d) == DatasetLen - d.drawn
CombinedDatasetLen(d) == DatasetLen

DatasetInit ==
    \E specs \in [SourceIds -> SpecKinds], st \in SeqsUpTo(SourceIds, MaxItems) :
        ds = [pc |-> "new", specs |-> specs, stream |-> st, it |-> NoIterator,
              example |-> NoExample, drawn |-> 0, raised |-> FALSE,
              last_idx |-> 0]

DatasetNext ==
    \/ Construct
    \/ \E idx \in 0 .. MaxItems : GetItem(idx)

\* =========================================================== step mappers
\* step_map_fn.py:3-4
TARGET_WIDTH == 160
TARGET_HEIGHT == 128

MapperNames == {"jaco", "berkeley_cable_routing", "bridge", "toto"}

\* a tensor is kept as its shape and dtype
Tensor(shape, dtype) == [shape |-> shape, dtype |-> dtype]

RECURSIVE Numel(_)
Numel(shape) == IF shape = <<>> THEN 1 ELSE Head(shape) * Numel(Tail(shape))

\* tf.cast keeps the shape
Cast(t, dtype) == Tensor(t.shape, dtype)

\* tf.reshape keeps the dtype and needs the same number of elements
ReshapeError == [error |-> "InvalidArgumentError"]
Reshape(t, shape) ==
    IF Numel(t.shape) = Numel(shape) THEN Tensor(shape, t.dtype) ELSE ReshapeError

\* tf.image.resize_with_pad of an (H, W, C) image: (target_height,
\* target_width, C), float32
ResizeWithPad(img, h, w) == Tensor(<<h, w, img.shape[3]>>, "float32")

\* tf.transpose(t, perm)
Transpose(t, perm) == Tensor([i \in DOMAIN perm |-> t.shape[perm[i] + 1]], t.dtype)

\* step_map_fn.py:13-15 (the same lines in every mapper)
MapImage(step) ==
    Transpose(Cast(ResizeWithPad(step.observation.image, TARGET_HEIGHT, TARGET_WIDTH),
                   "uint8"),
              <<2, 0, 1>>)

MapStep(step, first, middle, final) ==
    [observation |->
        [image |-> MapImage(step),
         natural_language_embedding |-> step.observation.natural_language_embedding],
     action |-> [first_three |-> first, middle_three |-> middle, final_one |-> final],
     is_first |-> step.is_first,
     is_last |-> step.is_last,
     is_terminal |-> step.is_terminal]

\* step_map_fn.py:7-29
jaco_step_map_fn(step) ==
    MapStep(step,
            Cast(step.action.world_vector, "float32"),
            Cast(step.action.terminate_episode, "float32"),
            Cast(step.action.gripper_closedness_action, "float32"))

\* step_map_fn.py:32-50
berkeley_cable_routing_step_map_fn(step) ==
    MapStep(step,
            Cast(step.action.world_vector, "float32"),
            Cast(step.action.rotation_delta, "float32"),
            Reshape(step.action.terminate_episode, <<1>>))

\* step_map_fn.py:53-75
bridge_step_map_fn(step) ==
    MapStep(step,
            Cast(step.action.world_vector, "float32"),
            Cast(step.action.rotation_delta, "float32"),
            Cast(step.action.open_gripper, "float32"))

\* step_map_fn.py:78-100
toto_step_map_fn(step) ==
    MapStep(step,
            Cast(step.action.world_vector, "float32"),
            Cast(step.action.rotation_delta, "float32"),
            Cast(step.action.open_gripper, "float32"))

ApplyMapper(name, step) ==
    CASE name = "jaco" -> jaco_step_map_fn(step)
      [] name = "berkeley_cable_routing" -> berkeley_cable_routing_step_map_fn(step)
      [] name = "bridge" -> bridge_step_map_fn(step)
      [] name = "toto" -> toto_step_map_fn(step)

\* the native steps: vector fields of three elements in either float width,
\* gripper and termination fields as scalars, one-element or three-element
\* vectors of any of three dtypes.
VectorTensors == {Tensor(<<3>>, d) : d \in {"float32", "float64"}}
FlagTensors ==
    {Tensor(sh, d) : sh \in {<<>>, <<1>>, <<3>>}, d \in {"float32", "int32", "bool"}}

NativeSteps ==
    {[observation |->
         [image |-> Tensor(<<"H", "W", 3>>, "uint8"),
          natural_language_embedding |-> Tensor(<<512>>, "float32")],
      action |->
         [world_vector |-> wv, rotation_delta |-> rd, terminate_episode |-> te,
          gripper_closedness_action |-> gc, open_gripper |-> og],
      is_first |-> Tensor(<<>>, "bool"),
      is_last |-> Tensor(<<>>, "bool"),
      is_terminal |-> Tensor(<<>>, "bool")] :
        wv \in VectorTensors, rd \in VectorTensors, te \in FlagTensors,
        gc \in FlagTensors, og \in FlagTensors}

NoStep == [none |-> TRUE]

StepMapInit ==
    \E name \in MapperNames, step \in NativeSteps :
        sm = [pc |-> "native", mapper |-> name, step |-> step, out |-> NoStep]

\* one source's mapper applied to one native step
MapOneStep ==
    /\ sm.pc = "native"
    /\ sm' = [sm EXCEPT !.pc = "mapped", !.out = ApplyMapper(sm.mapper, sm.step)]
    /\ UNCHANGED <<trainVars, ds, rt, ctor>>

\* ============================================== retrieve_single_timestep
\* bound of the time axis
MaxT == 2

RtBatchSizes == {1, 2}
RtValues == {0, 1}
RtKeys == {"image", "natural_language_embedding"}

\* the tensors of shape (B, T) and (B, T, 1)
RtTensors(B, T, key) ==
    IF key = "image"
    THEN [1 .. B -> [1 .. T -> {<<v>> : v \in RtValues}]]
    ELSE [1 .. B -> [1 .. T -> RtValues]]

\* v[:, idx] for 0 <= idx < T
IndexSecondAxisBug(v, idx) == [b \in DOMAIN v |-> v[b][1]]
IndexSecondAxis(v, idx) == [b \in DOMAIN v |-> v[b][idx + 1]]

\* train.py:454-462: a deep copy of the dict whose every value is replaced by
\* v[:, idx]; the dict passed in is only read.
retrieve_single_timestep(dict_obj, idx) ==
    [dict_obj_return |-> [k \in DOMAIN dict_obj |-> IndexSecondAxis(dict_obj[k], idx)],
     dict_obj |-> dict_obj]

NoDict == [none |-> TRUE]

RetrieveInit ==
    \E B \in RtBatchSizes, T \in 1 .. MaxT :
        \E img \in RtTensors(B, T, "image"),
           emb \in RtTensors(B, T, "natural_language_embedding"),
           idx \in 0 .. (T - 1) :
            rt = [pc |-> "call", T |-> T, idx |-> idx,
                  arg |-> [image |-> img, natural_language_embedding |-> emb],
                  dict_obj |-> [image |-> img, natural_language_embedding |-> emb],
                  ret |-> NoDict]

\* the call: rt.arg keeps the value passed in, rt.dict_obj is the caller's
\* dict after the call
Retrieve ==
    /\ rt.pc = "call"
    /\ LET r == retrieve_single_timestep(rt.dict_obj, rt.idx) IN
       rt' = [rt EXCEPT !.pc = "returned", !.ret = r.dict_obj_return,
                        !.dict_obj = r.dict_obj]
    /\ UNCHANGED <<trainVars, ds, sm, ctor>>

\* ======================================================= Trainer.__init__
\* bound of the constructor model: the seconds the clock can advance
MaxClock == 1

\* self.train_name before make_log_dir sets it
NoName == ""

\* the directories of make_log_dir
LogDir == <<"log_dir">>
TensorboardLogs == <<"log_dir", "tensorboard_logs">>
\* train.py:497, os.path.join(log_dir, train_name)
CheckpointDir(train_name) == <<"log_dir", train_name>>
\* train.py:500, os.path.join(log_dir, "tensorboard_logs", train_name)
TensorboardDir(train_name) == <<"log_dir", "tensorboard_logs", train_name>>

\* train.py:492, str(time.time()).split(".")[0]: the clock's whole seconds
TrainName(clock) == ToString(clock)

CtorProcs == 0 .. (ctor.world_size - 1)

CtorUnchanged == UNCHANGED <<trainVars, ds, sm, rt>>

CtorFailed(p, err) ==
    [ctor EXCEPT !.pc[p] = "failed", !.error[p] = err]

\* train.py:48, utils.init_distributed_mode(args): joins the process group;
\* the call returns on a process once every process of the job has made it.
InitDistributedMode(p) ==
    /\ ctor.pc[p] = "new"
    /\ ctor' = [ctor EXCEPT !.pc[p] = "init_distributed"]
    /\ CtorUnchanged

InitDistributedModeReturn(p) ==
    /\ ctor.pc[p] = "init_distributed"
    /\ \A q \in CtorProcs : ctor.pc[q] # "new"
    /\ ctor' = [ctor EXCEPT !.pc[p] = "make_log_dir"]
    /\ CtorUnchanged

\* train.py:492-494: the run identifier is read off the process's clock.
MakeLogDirName(p) ==
    /\ ctor.pc[p] = "make_log_dir"
    /\ ctor' = [ctor EXCEPT !.train_name[p] = TrainName(ctor.clock),
                            !.pc[p] = "isdir_log"]
    /\ CtorUnchanged

\* train.py:495: os.path.isdir(log_dir)
IsdirLogDir(p) ==
    /\ ctor.pc[p] = "isdir_log"
    /\ ctor' = [ctor EXCEPT !.isdir[p] = (LogDir \in ctor.dirs),
                            !.pc[p] = "makedirs_log"]
    /\ CtorUnchanged

\* train.py:496: os.makedirs(log_dir) when the test found no directory;
\* FileExistsError when it exists by now.
MakedirsLogDir(p) ==
    /\ ctor.pc[p] = "makedirs_log"
    /\ IF ctor.isdir[p]
       THEN ctor' = [ctor EXCEPT !.pc[p] = "isdir_tb"]
       ELSE IF LogDir \in ctor.dirs
       THEN ctor' = CtorFailed(p, "FileExistsError")
       ELSE ctor' = [ctor EXCEPT !.dirs = @ \cup {LogDir}, !.pc[p] = "isdir_tb"]
    /\ CtorUnchanged

\* train.py:497-498: os.path.isdir(<log_dir>/tensorboard_logs)
IsdirTensorboardLogs(p) ==
    /\ ctor.pc[p] = "isdir_tb"
    /\ ctor' = [ctor EXCEPT !.isdir[p] = (TensorboardLogs \in ctor.dirs),
                            !.pc[p] = "mkdir_tb"]
    /\ CtorUnchanged

\* train.py:499: os.mkdir(<log_dir>/tensorboard_logs) when the test found no
\* directory; FileExistsError when it exists by now.
MkdirTensorboardLogs(p) ==
    /\ ctor.pc[p] = "mkdir_tb"
    /\ IF ctor.isdir[p]
       THEN ctor' = [ctor EXCEPT !.pc[p] = "mkdir_checkpoint_dir"]
       ELSE IF TensorboardLogs \in ctor.dirs
       THEN ctor' = CtorFailed(p, "FileExistsError")
       ELSE ctor' = [ctor EXCEPT !.dirs = @ \cup {TensorboardLogs},
                                 !.pc[p] = "mkdir_checkpoint_dir"]
    /\ CtorUnchanged

\* train.py:501-503 and 49-54: the main process makes the run directory;
\* every process then creates its SummaryWriter, which makes the tensorboard
\* directory of the run if it is missing.
MkdirCheckpointDir(p) ==
    /\ ctor.pc[p] = "mkdir_checkpoint_dir"
    /\ IF IsMainProcess(p)
       THEN IF CheckpointDir(ctor.train_name[p]) \in ctor.dirs
            THEN ctor' = CtorFailed(p, "FileExistsError")
            ELSE ctor' = [ctor EXCEPT
                             !.dirs = @ \cup {CheckpointDir(ctor.train_name[p]),
                                              TensorboardDir(ctor.train_name[p])},
                             !.pc[p] = "open_json"]
       ELSE ctor' = [ctor EXCEPT
                        !.dirs = @ \cup {TensorboardDir(ctor.train_name[p])},
                        !.pc[p] = "open_json"]
    /\ CtorUnchanged

\* train.py:75-81: open(<checkpoint_dir>/<train_name>.json, "w") and dump the
\* configuration; FileNotFoundError when the directory does not exist.
OpenJson(p) ==
    /\ ctor.pc[p] = "open_json"
    /\ IF CheckpointDir(ctor.train_name[p]) \in ctor.dirs
       THEN ctor' = [ctor EXCEPT
                        !.json = @ \cup {[dir |-> CheckpointDir(ctor.train_name[p]),
                                          name |-> ctor.train_name[p],
                                          writer |-> p]},
                        !.pc[p] = "constructed"]
       ELSE ctor' = CtorFailed(p, "FileNotFoundError")
    /\ CtorUnchanged

\* a second passes on the clock while some process has yet to read it
Tick ==
    /\ ctor.clock < MaxClock
    /\ \E p \in CtorProcs : ctor.train_name[p] = NoName
    /\ ctor' = [ctor EXCEPT !.clock = @ + 1]
    /\ CtorUnchanged

\* the job's processes before Trainer(args); the log directory may be there
\* from an earlier job
CtorInit ==
    \E ws \in 1 .. MaxProcs,
       dirs \in {{}, {LogDir}, {LogDir, TensorboardLogs}} :
        ctor = [world_size |-> ws, distributed |-> (ws > 1), clock |-> 0,
                dirs |-> dirs, json |-> {},
                pc |-> [p \in 0 .. (ws - 1) |-> "new"],
                train_name |-> [p \in 0 .. (ws - 1) |-> NoName],
                isdir |-> [p \in 0 .. (ws - 1) |-> FALSE],
                error |-> [p \in 0 .. (ws - 1) |-> "none"]]

CtorNext ==
    \/ \E p \in CtorProcs : InitDistributedMode(p)
    \/ \E p \in CtorProcs : InitDistributedModeReturn(p)
    \/ \E p \in CtorProcs : MakeLogDirName(p)
    \/ \E p \in CtorProcs : IsdirLogDir(p)
    \/ \E p \in CtorProcs : MakedirsLogDir(p)
    \/ \E p \in CtorProcs : IsdirTensorboardLogs(p)
    \/ \E p \in CtorProcs : MkdirTensorboardLogs(p)
    \/ \E p \in CtorProcs : MkdirCheckpointDir(p)
    \/ \E p \in CtorProcs : OpenJson(p)
    \/ Tick

\* ------------------------------------------------------------ initial states
Configs ==
    {[epochs |-> n, val_interval |-> vi, batch_size |-> bs, world_size |-> ws,
      distributed |-> (ws > 1), resume |-> r,
      resume_from_checkpoint |-> CheckpointFilename(0, 0)] :
        n \in 0 .. MaxEpochs, vi \in 1 .. MaxValInterval, bs \in BatchSizes,
        ws \in 1 .. MaxProcs, r \in BOOLEAN}

DatasetIdle == [pc |-> "idle"]
StepMapIdle == [pc |-> "idle"]
RetrieveIdle == [pc |-> "idle"]
CtorIdle == [pc |-> "idle"]

TrainInit ==
    /\ args \in Configs
    /\ stream_len \in StreamSizes
    /\ StepsOfRun(args, stream_len) <= MaxSteps
    /\ run = 1
    /\ files = {}
    /\ scalars = {}
    /\ pc = [p \in Procs |-> "init"]
    /\ e = [p \in Procs |-> 0]
    /\ yielded = [p \in Procs |-> 0]
    /\ combined_dataset_it = [p \in Procs |-> 0]
    /\ train_step = [p \in Procs |-> 0]
    /\ network = [p \in Procs |-> <<>>]
    /\ optimizer = [p \in Procs |-> FreshOptimizer]
    /\ scheduler = [p \in Procs |-> FreshScheduler]
    /\ checkpoint = [p \in Procs |-> NoCheckpoint]
    /\ coll = [p \in Procs |-> 0]
    /\ trace = [p \in Procs |-> <<>>]
    /\ loaded = [p \in Procs |-> NoCheckpoint]
    /\ stop_iteration = [p \in Procs |-> FALSE]

Init ==
    /\ TrainInit
    /\ ds = DatasetIdle
    /\ sm = StepMapIdle
    /\ rt = RetrieveIdle
    /\ ctor = CtorIdle

Next ==
    \/ \E p \in Procs : Setup(p) /\ UNCHANGED <<ds, sm, rt, ctor>>
    \/ \E p \in Procs : EpochHead(p) /\ UNCHANGED <<ds, sm, rt, ctor>>
    \/ \E p \in Procs : Fetch(p) /\ UNCHANGED <<ds, sm, rt, ctor>>
    \/ \E p \in Procs : TrainStep(p) /\ UNCHANGED <<ds, sm, rt, ctor>>
    \/ \E p \in Procs : Fail(p) /\ UNCHANGED <<ds, sm, rt, ctor>>
    \/ \E p \in Procs : Checkpoint(p) /\ UNCHANGED <<ds, sm, rt, ctor>>
    \/ \E p \in Procs : Barrier1(p) /\ UNCHANGED <<ds, sm, rt, ctor>>
    \/ \E p \in Procs : Barrier2(p) /\ UNCHANGED <<ds, sm, rt, ctor>>
    \/ \E p \in Procs : SchedulerStep(p) /\ UNCHANGED <<ds, sm, rt, ctor>>
    \/ Restart /\ UNCHANGED <<ds, sm, rt, ctor>>

Spec == Init /\ [][Next]_vars

\* the training variables while another component is exercised
TrainIdle ==
    /\ args = [epochs |-> 0, val_interval |-> 1, batch_size |-> 1, world_size |-> 1,
               distributed |-> FALSE, resume |-> FALSE,
               resume_from_checkpoint |-> CheckpointFilename(0, 0)]
    /\ stream_len = 0
    /\ run = 1
    /\ files = {}
    /\ scalars = {}
    /\ pc = [p \in Procs |-> "idle"]
    /\ e = [p \in Procs |-> 0]
    /\ yielded = [p \in Procs |-> 0]
    /\ combined_dataset_it = [p \in Procs |-> 0]
    /\ train_step = [p \in Procs |-> 0]
    /\ network = [p \in Procs |-> <<>>]
    /\ optimizer = [p \in Procs |-> FreshOptimizer]
    /\ scheduler = [p \in Procs |-> FreshScheduler]
    /\ checkpoint = [p \in Procs |-> NoCheckpoint]
    /\ coll = [p \in Procs |-> 0]
    /\ trace = [p \in Procs |-> <<>>]
    /\ loaded = [p \in Procs |-> NoCheckpoint]
    /\ stop_iteration = [p \in Procs |-> FALSE]

InitDataset ==
    TrainIdle /\ DatasetInit /\ sm = StepMapIdle /\ rt = RetrieveIdle /\ ctor = CtorIdle
SpecDataset == InitDataset /\ [][DatasetNext]_vars

InitStepMap ==
    TrainIdle /\ ds = DatasetIdle /\ StepMapInit /\ rt = RetrieveIdle /\ ctor = CtorIdle
SpecStepMap == InitStepMap /\ [][MapOneStep]_vars

InitConstruct ==
    TrainIdle /\ ds = DatasetIdle /\ sm = StepMapIdle /\ rt = RetrieveIdle /\ CtorInit
SpecConstruct == InitConstruct /\ [][CtorNext]_vars

InitRetrieve ==
    TrainIdle /\ ds = DatasetIdle /\ sm = StepMapIdle /\ RetrieveInit /\ ctor = CtorIdle
SpecRetrieve == InitRetrieve /\ [][Retrieve]_vars

\* some process executes its next statement without failing
Step ==
    /\ \E p \in Procs :
          \/ Setup(p) \/ EpochHead(p) \/ Fetch(p) \/ TrainStep(p)
          \/ Checkpoint(p) \/ Barrier1(p) \/ Barrier2(p) \/ SchedulerStep(p)
    /\ UNCHANGED <<ds, sm, rt, ctor>>

\* ================================================================ claims
CheckpointKeys ==
    {"model_state_dict", "optimizer_state_dict", "scheduler_state_dict", "epoch"}

\* the checkpoint files in the current run's directory
RunFiles == {f \in files : f.path[1] = run}

\* the bundle stored in the file the configuration resumes from
ResumeFileExists == \E f \in files : f.path = args.resume_from_checkpoint

ResumeBundle ==
    IF ResumeFileExists
    THEN (CHOOSE f \in files : f.path = args.resume_from_checkpoint).bundle
    ELSE NoCheckpoint

\* process p entered the batch loop of epoch k in this run
Entered(p, k) ==
    \E i \in DOMAIN trace[p] : trace[p][i] = [op |-> "train", epoch |-> k]

\* process p has left the batch loop of epoch k
LeftLoop(p, k) ==
    /\ Entered(p, k)
    /\ \/ e[p] > k
       \/ e[p] = k /\ pc[p] \in {"after_loop", "barrier1", "barrier2", "sched"}

\* process p is past lines 236-248 of epoch k
PastCheckpoint(p, k) ==
    /\ Entered(p, k)
    /\ \/ e[p] > k
       \/ e[p] = k /\ pc[p] \in {"barrier1", "barrier2", "sched"}

\* the epoch indices process p entered, in order
TrainedEpochs(p) ==
    LET tr == SelectSeq(trace[p], LAMBDA ev : ev.op = "train") IN
    [i \in DOMAIN tr |-> tr[i].epoch]

\* C1: once the saving process is past the checkpoint lines of epoch k, the
\* file <run dir>/<k>-checkpoint.pth exists if and only if k + 1 is a
\* multiple of val_interval; every checkpoint file holds exactly the four
\* keys, its epoch is the k of its name, and it belongs to a finished epoch.
C1_CheckpointEveryValInterval ==
    /\ \A k \in 0 .. (MaxEpochs + 1) :
          PastCheckpoint(MainRank, k) =>
              ((\E f \in RunFiles : f.path[2] = k /\ f.path[3] = "-checkpoint.pth")
                  <=> ((k + 1) % args.val_interval = 0))
    /\ \A f \in RunFiles :
          /\ DOMAIN f.bundle = CheckpointKeys
          /\ f.bundle.epoch = f.path[2]
          /\ f.path[3] = "-checkpoint.pth"
          /\ PastCheckpoint(MainRank, f.path[2])

C1_Witness ==
    /\ args.val_interval = 2
    /\ PastCheckpoint(MainRank, 0)
    /\ PastCheckpoint(MainRank, 1)
    /\ \E f \in RunFiles : f.path[2] = 1
    /\ ~ \E f \in RunFiles : f.path[2] = 0

\* C2: a resumed process holds the checkpoint's model, optimizer and
\* scheduler state when it reaches the epoch loop, the first epoch it enters
\* is the stored epoch and it enters none below it; a run that does not
\* resume enters epoch 0 first.
C2_ResumeStartsAtStoredEpoch ==
    \A p \in Procs :
        /\ (args.resume /\ pc[p] = "epoch" /\ trace[p] = <<>>) =>
              /\ network[p] = ResumeBundle.model_state_dict
              /\ optimizer[p] = ResumeBundle.optimizer_state_dict
              /\ scheduler[p] = ResumeBundle.scheduler_state_dict
        /\ TrainedEpochs(p) # <<>> =>
              /\ TrainedEpochs(p)[1] = (IF args.resume THEN ResumeBundle.epoch ELSE 0)
              /\ \A i \in DOMAIN TrainedEpochs(p) :
                    TrainedEpochs(p)[i] >= TrainedEpochs(p)[1]

C2_Witness ==
    /\ args.resume
    /\ ResumeFileExists
    /\ ResumeBundle.epoch = 1
    /\ TrainedEpochs(MainRank) = <<1>>
    /\ train_step[MainRank] > 0

\* C3: every scalar entry and every checkpoint file was written by the main
\* process.
C3_OnlyMainWrites ==
    /\ \A s \in scalars : s.writer = MainRank
    /\ \A f \in files : f.writer = MainRank

C3_Witness ==
    /\ args.distributed
    /\ \E p \in Procs :
          /\ p # MainRank
          /\ train_step[p] > 0
          /\ PastCheckpoint(p, 0)
          /\ (0 + 1) % args.val_interval = 0
    /\ \E s \in scalars : s.tag = "loss_ce"
    /\ RunFiles # {}

\* epoch k is over for every process, and the saving process is past its
\* checkpoint lines
EpochOverEverywhere(k) ==
    /\ \A q \in Procs : LeftLoop(q, k)
    /\ PastCheckpoint(MainRank, k)

\* C4 as claimed: in distributed mode a process enters epoch k + 1 only when
\* every process has left the batch loop of epoch k and the main process is
\* past the checkpoint of epoch k, for every k.
C4_BarrierEveryEpoch ==
    args.distributed =>
        \A p \in Procs : \A k \in 0 .. MaxEpochs :
            (Entered(p, k) /\ Entered(p, k + 1)) => EpochOverEverywhere(k)

\* C4 amended: the same, for the epochs k whose k + 1 is a multiple of
\* val_interval (the epochs that end with the two barriers).
C4_BarrierAtCheckpointEpochs ==
    args.distributed =>
        \A p \in Procs : \A k \in 0 .. MaxEpochs :
            (Entered(p, k) /\ Entered(p, k + 1) /\ (k + 1) % args.val_interval = 0)
                => EpochOverEverywhere(k)

C4_Witness ==
    /\ args.distributed
    /\ args.val_interval = 1
    /\ \E p \in Procs :
          /\ Entered(p, 0) /\ Entered(p, 1)
          /\ train_step[p] > 0
          /\ \E q \in Procs : q # p /\ ~ Entered(q, 1)

LossEntries == {s \in scalars : s.tag = "loss_ce"}

EndToEndRun ==
    /\ ~ args.resume
    /\ ~ args.distributed
    /\ args.epochs = 1
    /\ args.batch_size = 1
    /\ pc[MainRank] = "done"

\* C6 as claimed: the finished end-to-end run left exactly one checkpoint
\* file and one loss_ce entry per batch drawn from the merged stream.
C6_EndToEndOneCheckpoint ==
    EndToEndRun =>
        /\ Cardinality(RunFiles) = 1
        /\ Cardinality(LossEntries) = combined_dataset_it[MainRank]

\* C6 amended: the finished end-to-end run left exactly one checkpoint file
\* when val_interval is 1 and none otherwise, and one loss_ce entry per
\* batch drawn from the merged stream.
C6_EndToEndCheckpointIfInterval ==
    EndToEndRun =>
        /\ Cardinality(RunFiles) = (IF args.val_interval = 1 THEN 1 ELSE 0)
        /\ \A f \in RunFiles : f.path[2] = 0
        /\ Cardinality(LossEntries) = combined_dataset_it[MainRank]

C6_Witness ==
    /\ EndToEndRun
    /\ args.val_interval = 1
    /\ combined_dataset_it[MainRank] > 0
    /\ Cardinality(RunFiles) = 1

\* C7: a checkpoint built in a resumed run before any optimizer step and any
\* scheduler step of that run carries the optimizer and scheduler state of
\* the checkpoint file that was loaded.
C7_CheckpointRoundTrip ==
    \A p \in Procs :
        (/\ args.resume
         /\ pc[p] \in {"barrier1", "barrier2", "sched"}
         /\ Len(trace[p]) = 2 /\ trace[p][2].op = "checkpoint"
         /\ train_step[p] = 0)
        => /\ checkpoint[p].optimizer_state_dict = ResumeBundle.optimizer_state_dict
           /\ checkpoint[p].scheduler_state_dict = ResumeBundle.scheduler_state_dict
           /\ IsMainProcess(p) =>
                 \E f \in RunFiles :
                    /\ f.bundle.optimizer_state_dict = ResumeBundle.optimizer_state_dict
                    /\ f.bundle.scheduler_state_dict = ResumeBundle.scheduler_state_dict

C7_Witness ==
    /\ args.resume
    /\ ResumeFileExists
    /\ pc[MainRank] = "sched"
    /\ Len(trace[MainRank]) = 2 /\ trace[MainRank][2].op = "checkpoint"
    /\ train_step[MainRank] = 0
    /\ ResumeBundle.optimizer_state_dict # FreshOptimizer
    /\ ResumeBundle.scheduler_state_dict # FreshScheduler

\* the first epoch of the run
StartEpoch == IF args.resume THEN ResumeBundle.epoch ELSE 0

\* the epoch indices StartEpoch .. epochs - 1 in increasing order
EpochsToTrain ==
    [i \in 1 .. (IF args.epochs > StartEpoch THEN args.epochs - StartEpoch ELSE 0)
        |-> StartEpoch + i - 1]

RunCompleted(p) == pc[p] = "done" /\ ~ stop_iteration[p]

C10_Safety ==
    \A p \in Procs :
        RunCompleted(p) =>
            /\ TrainedEpochs(p) = EpochsToTrain
            /\ \A i \in DOMAIN trace[p] :
                  trace[p][i].op = "checkpoint" =>
                      /\ i > 1
                      /\ trace[p][i - 1] = [op |-> "train", epoch |-> trace[p][i].epoch]
            /\ (StartEpoch >= args.epochs) => (trace[p] = <<>> /\ RunFiles = {})

\* how far process p is in train(): the epoch, the statement within the
\* epoch, the batches taken in the batch loop
Stage(p) ==
    CASE pc[p] = "epoch" -> 1
      [] pc[p] \in {"loop", "backward"} -> 2
      [] pc[p] = "after_loop" -> 3
      [] pc[p] = "barrier1" -> 4
      [] pc[p] = "barrier2" -> 5
      [] pc[p] = "sched" -> 6
      [] pc[p] = "done" -> 7
      [] pc[p] = "aborted" -> 8
      [] OTHER -> 0

Position(p) ==
    <<IF pc[p] = "init" THEN -1 ELSE e[p],
      Stage(p),
      IF pc[p] \in {"loop", "backward"} THEN yielded[p] ELSE 0,
      IF pc[p] = "loop" THEN 1 ELSE 0>>

LexLess(a, b) ==
    \E i \in 1 .. 4 : a[i] < b[i] /\ \A j \in 1 .. (i - 1) : a[j] = b[j]

\* the positions are bounded: no epoch beyond the larger of the start epoch
\* and the epoch count, no more batches than the stream holds
PositionBounded ==
    \A p \in Procs :
        /\ pc[p] \notin {"init", "aborted", "idle"} =>
              e[p] <= (IF args.epochs > StartEpoch THEN args.epochs ELSE StartEpoch)
        /\ yielded[p] * args.batch_size <= stream_len

\* within a job every step moves exactly one process forward
Advances ==
    run' = run =>
        \E p \in Procs :
            /\ LexLess(Position(p), Position(p)')
            /\ \A q \in Procs \ {p} : Position(q)' = Position(q)

\* a job that is not over has a process that can execute its next statement
CanProceed == JobOver \/ ENABLED Step

\* C10: a process whose batch requests all succeeded returns from train()
\* having entered exactly the epochs StartEpoch .. epochs - 1 in increasing
\* order, each followed by at most one checkpoint, and none (and no
\* checkpoint) when StartEpoch >= epochs; and every job comes to its end:
\* while it is not over some process can step, every step moves a process
\* forward, and the positions are bounded.
C10_RunTerminatesAfterEpochs ==
    /\ [] (C10_Safety /\ PositionBounded /\ CanProceed)
    /\ [][Advances]_vars

C10_Witness ==
    /\ RunCompleted(MainRank)
    /\ args.resume
    /\ ResumeFileExists
    /\ StartEpoch = 1
    /\ TrainedEpochs(MainRank) = <<1>>
    /\ train_step[MainRank] > 0

C10_WitnessNoEpoch ==
    /\ RunCompleted(MainRank)
    /\ args.resume
    /\ ResumeFileExists
    /\ StartEpoch >= args.epochs
    /\ trace[MainRank] = <<>>

\* C5: once construction has run on sources whose expected tensor specs are
\* not all equal to the first source's, it has failed, no iterator exists
\* and no item has been drawn.
C5_SpecMismatchFailsFast ==
    (ds.pc # "new" /\ \E i \in SourceIds : ds.specs[i] # ds.specs[1]) =>
        /\ ds.pc = "failed"
        /\ ds.it = NoIterator
        /\ ds.drawn = 0
        /\ ds.example = NoExample

C5_Witness ==
    /\ ds.pc = "failed"
    /\ ds.specs[2] # ds.specs[1]
    /\ Len(ds.stream) > 0

CanonicalActionKeys == {"first_three", "middle_three", "final_one"}
CanonicalStepKeys == {"observation", "action", "is_first", "is_last", "is_terminal"}

\* C8: the step a mapper returns has the canonical field names, a
\* channel-first uint8 image and float32 action groups of shapes (3,), (3,)
\* and (1,), whatever mapper and native step it came from.
C8_CanonicalSchema ==
    sm.pc = "mapped" =>
        /\ DOMAIN sm.out = CanonicalStepKeys
        /\ DOMAIN sm.out.observation = {"image", "natural_language_embedding"}
        /\ DOMAIN sm.out.action = CanonicalActionKeys
        /\ sm.out.observation.image = Tensor(<<3, TARGET_HEIGHT, TARGET_WIDTH>>, "uint8")
        /\ sm.out.action.first_three = Tensor(<<3>>, "float32")
        /\ sm.out.action.middle_three = Tensor(<<3>>, "float32")
        /\ sm.out.action.final_one = Tensor(<<1>>, "float32")

\* C9: the dict returned for index idx has the keys of the dict passed in,
\* each value keeps the batch axis and holds, per batch row, the element at
\* position idx of the time axis; the dict passed in is as it was.
C9_RetrieveSingleTimestep ==
    rt.pc = "returned" =>
        /\ DOMAIN rt.ret = DOMAIN rt.arg
        /\ \A k \in DOMAIN rt.arg :
              /\ DOMAIN rt.ret[k] = DOMAIN rt.arg[k]
              /\ \A b \in DOMAIN rt.arg[k] : rt.ret[k][b] = rt.arg[k][b][rt.idx + 1]
        /\ rt.dict_obj = rt.arg

C9_Witness ==
    /\ rt.pc = "returned"
    /\ rt.T = 2
    /\ rt.idx = 1
    /\ rt.arg.image[1][1] # rt.arg.image[1][2]
    /\ rt.ret.image[1] = rt.arg.image[1][2]

\* scheduler steps process p has taken in this run
SchedulerStepsInRun(p) ==
    scheduler[p].last_epoch
        - (IF loaded[p] = NoCheckpoint THEN FreshScheduler.last_epoch
           ELSE loaded[p].scheduler_state_dict.last_epoch)

\* a batch request or a training step of process p raised in this run
RaisedInEpoch(p) ==
    \/ stop_iteration[p]
    \/ pc[p] = "aborted" /\ trace[p] # <<>>

\* C11 as claimed: a process whose resume checkpoint could not be loaded has
\* aborted without entering an epoch and the run has no checkpoint file; a
\* process one of whose batch requests or training steps raised during epoch
\* e has aborted, the last thing it did is enter epoch e (no checkpoint of
\* e, no later epoch) and it took no scheduler step for e.
C11_FailureIsFatal ==
    \A p \in Procs :
        /\ (args.resume /\ ~ ResumeFileExists /\ pc[p] # "init") =>
              /\ pc[p] = "aborted"
              /\ trace[p] = <<>>
              /\ RunFiles = {}
        /\ RaisedInEpoch(p) =>
              /\ pc[p] = "aborted"
              /\ trace[p][Len(trace[p])] = [op |-> "train", epoch |-> e[p]]
              /\ SchedulerStepsInRun(p) = e[p] - StartEpoch

\* a request on the constructed dataset takes one item: the iterator moves
\* by one and the example handed out is the stream's item at the new
\* position; or the stream is used up, the request raises and nothing moves.
OneItemPerRequest ==
    ds.pc = "built" =>
        \/ /\ ds.it.pos < Len(ds.stream)
           /\ ds'.it = [pos |-> ds.it.pos + 1]
           /\ ds'.drawn = ds.drawn + 1
           /\ ds'.example = TfToTorch(StreamItem(ds.it.pos + 1))
           /\ ds'.raised = ds.raised
        \/ /\ ds.it.pos = Len(ds.stream)
           /\ ds'.it = ds.it
           /\ ds'.drawn = ds.drawn
           /\ ds'.raised

\* the state of the constructed dataset is a function of the number of
\* requests that came before
LazyStream ==
    ds.pc = "built" =>
        /\ ds.it # NoIterator
        /\ ds.it.pos = ds.drawn
        /\ ds.drawn <= Len(ds.stream)
        /\ ds.drawn > 0 => ds.example = TfToTorch(StreamItem(ds.drawn))
        /\ ds.raised => ds.drawn = Len(ds.stream)
        /\ CombinedDatasetLen(ds) = 100000000

\* C12: every __getitem__(idx) call moves the one iterator made at
\* construction by exactly one item whatever idx is, so the item handed out
\* is the one at the position given by the number of earlier requests;
\* __len__ reports 10^8 however many items were taken; the iterator is never
\* made anew, so after the stream is used up every request raises.
C12_LazyOneItemPerRequest ==
    /\ [] LazyStream
    /\ [][OneItemPerRequest]_vars

C12_Witness ==
    /\ ds.pc = "built"
    /\ Len(ds.stream) = 2
    /\ ds.stream[1] # ds.stream[2]
    /\ ds.drawn = 2
    /\ ds.example.position = 2
    /\ ds.last_idx = 0
    /\ ds.raised

\* the scheduler steps a scheduler state reflects: the constructor leaves
\* last_epoch = 0 and every step() adds one
StepsReflected(sched) == sched.last_epoch - FreshScheduler.last_epoch

\* process p is in train() at or after the head of the epoch loop
InEpochLoop(p) ==
    \/ pc[p] \in {"epoch", "loop", "backward", "after_loop", "barrier1",
                  "barrier2", "sched", "done"}
    \/ pc[p] = "aborted" /\ trace[p] # <<>>

\* C13: wherever a process is in epoch e (its batch loop, its checkpoint,
\* the barriers, just before scheduler.step()), its scheduler reflects
\* exactly e steps, and after the step it is at epoch e + 1 with e + 1 steps;
\* this holds from the first epoch of a resumed run on. The checkpoint a
\* process builds for epoch e, and every checkpoint file of epoch e, stores a
\* scheduler state of exactly e steps.
C13_SchedulerStepsEqualEpoch ==
    /\ \A p \in Procs :
          /\ InEpochLoop(p) => StepsReflected(scheduler[p]) = e[p]
          /\ (pc[p] \in {"barrier1", "barrier2", "sched"}
              /\ ShouldCheckpoint(e[p], args.val_interval)) =>
                 /\ checkpoint[p].epoch = e[p]
                 /\ StepsReflected(checkpoint[p].scheduler_state_dict) = e[p]
    /\ \A f \in files :
          StepsReflected(f.bundle.scheduler_state_dict) = f.bundle.epoch

C13_Witness ==
    /\ args.resume
    /\ ResumeFileExists
    /\ StartEpoch = 1
    /\ pc[MainRank] = "sched"
    /\ e[MainRank] = 1
    /\ train_step[MainRank] > 0
    /\ StepsReflected(scheduler[MainRank]) = 1
    /\ \E f \in RunFiles : f.path[2] = 1

\* the epoch indices whose batches are contained in a model state
EpochsContained(model_state_dict) ==
    {model_state_dict[i] : i \in DOMAIN model_state_dict}

\* the epoch indices of the updates process p applied after loading
EpochsAppliedSinceLoad(p) ==
    {network[p][i] : i \in (Len(loaded[p].model_state_dict) + 1) .. Len(network[p])}

\* C14 as claimed: in a resumed run, no update applied after the load has
\* the epoch index of an update that the loaded model and optimizer state
\* already contain.
C14_EpochTrainedAtMostOnce ==
    \A p \in Procs :
        (args.resume /\ loaded[p] # NoCheckpoint) =>
            EpochsAppliedSinceLoad(p)
                \cap EpochsContained(loaded[p].model_state_dict) = {}

\* C15 as claimed: in distributed mode all processes that have a run
\* identifier have the same one, a process about to open its JSON file finds
\* its run directory in place, and no process fails to open the file.
C15_RunDirReadyBeforeJson ==
    ctor.distributed =>
        /\ \A p, q \in CtorProcs :
              (ctor.train_name[p] # NoName /\ ctor.train_name[q] # NoName) =>
                  ctor.train_name[p] = ctor.train_name[q]
        /\ \A p \in CtorProcs :
              /\ ctor.pc[p] = "open_json" =>
                    CheckpointDir(ctor.train_name[p]) \in ctor.dirs
              /\ ctor.error[p] # "FileNotFoundError"

====
